---------------------------- MODULE Spec2Model ----------------------------
(***************************************************************************)
(* Deployment pipeline of rise-server: the deployments Create handler,     *)
(* the deploy worker (deployer.Work), the relational store, the object     *)
(* store and the cache-invalidation exchange.                              *)
(*                                                                         *)
(* Every call of Work to the database, the object store or the exchange    *)
(* is one step, so that two workers and the API handler interleave at      *)
(* exactly the points where the Go code can be pre-empted by I/O.          *)
(***************************************************************************)
EXTENDS Integers, Sequences, FiniteSets, TLC

(***************************************************************************)
(* Bounds of the model.                                                    *)
(***************************************************************************)
MaxDeliveries == 2      \* job deliveries (runs of Work) in one behaviour
MaxCreates == 1         \* requests served by the Create handler
MaxChanges == 1         \* requests served by the configuration handlers

NULL == 0               \* a nil pointer / SQL NULL column

Workers == {"w1", "w2"}

(***************************************************************************)
(* Deployment states (models/deployment).                                  *)
(***************************************************************************)
StatePendingUpload == "pending_upload"
StateUploaded == "uploaded"
StatePendingBuild == "pending_build"
StatePendingDeploy == "pending_deploy"
StateDeployed == "deployed"
StateFailed == "failed"

States ==
  {StatePendingUpload, StateUploaded, StatePendingBuild, StatePendingDeploy,
   StateDeployed, StateFailed}

(***************************************************************************)
(* Errors returned by Work.                                                *)
(***************************************************************************)
errUnexpectedState == "deployment is in unexpected state"
ErrProjectLocked == "project is locked"
errDecode == "json: cannot unmarshal"
errRecordNotFound == "record not found"
errDB == "database error"
errS3 == "object store error"
errArchive == "archive error"
errMQ == "queue error"
nil == "nil"
running == "running"

(***************************************************************************)
(* Static data of the behaviours: two projects of one user, the explicit   *)
(* domains of each, and the archives a client may upload.                  *)
(***************************************************************************)
ProjectIDs == {1, 2}

ProjectName == [p \in ProjectIDs |-> IF p = 1 THEN "foo" ELSE "bar"]

DefaultDomain == "rise.cloud"

\* rows of the domains table, in primary-key order
DomainRows ==
  << [project_id |-> 1, name |-> "www.foo.com"] >>

Prefixes == {"ab12", "cd34"}

\* A tar.gz body: gzip says whether the gzip header is readable, entries are
\* the tar headers in order, truncated says that the stream ends in an error
\* instead of io.EOF.
TarDir(n) == [name |-> n, dir |-> TRUE]
TarFile(n) == [name |-> n, dir |-> FALSE]

GoodArchive ==
  [gzip |-> TRUE, truncated |-> FALSE,
   entries |-> << TarDir("js"), TarFile("index.html"), TarFile("js/app.js") >>]

TruncatedArchive ==
  [gzip |-> TRUE, truncated |-> TRUE,
   entries |-> << TarFile("index.html") >>]

NotGzip == [gzip |-> FALSE, truncated |-> FALSE, entries |-> << >>]

Payloads == {GoodArchive, NotGzip}

LockedAt == 1           \* the timestamp an administrator's lock carries

VARIABLES
  deployments,   \* the deployments table: sequence of rows, row i has id i
  projects,      \* the projects table: ProjectIDs -> row
  s3,            \* the bucket: function from keys to bodies
  worker,        \* the locals of each deploy worker's run of Work
  request,       \* the locals of the Create handler's current request
  queue,         \* Deploy jobs enqueued by the Create handler
  now,           \* the wall clock
  deliveries,    \* number of job deliveries so far
  creates,       \* number of Create requests so far
  builds,        \* the build queue: messages in the order they were sent
  changes,       \* number of configuration requests so far
  tables,        \* the domains, certs and raw_bundles tables
  s3Deletes,     \* the Delete calls of the API server, in order
  published      \* the invalidations the API server has published, in order

\* what only the projects handlers write
projectVars == << tables, s3Deletes, published >>

\* what only the configuration handlers write
configVars == << builds, changes, projectVars >>

vars ==
  << deployments, projects, s3, worker, request, queue, now, deliveries,
     creates, configVars >>

(***************************************************************************)
(* Models.                                                                 *)
(***************************************************************************)
\* faulty variant: the id is left out of the path component
PrefixID_PrefixOnly(depl) == depl.prefix

\* depl.PrefixID(): fmt.Sprintf("%s-%d", prefix, id)
PrefixID(depl) == depl.prefix \o "-" \o ToString(depl.id)

\* project.Project.DefaultDomainName
DefaultDomainName(proj) == proj.name \o "." \o DefaultDomain

RECURSIVE ExplicitDomainNames(_, _)
ExplicitDomainNames(rows, pid) ==
  IF rows = << >> THEN << >>
  ELSE (IF Head(rows).project_id = pid THEN << Head(rows).name >> ELSE << >>)
         \o ExplicitDomainNames(Tail(rows), pid)

\* project.Project.DomainNames: the default domain followed by the names of
\* the project's rows of the domains table
DomainNames(proj) ==
  << DefaultDomainName(proj) >> \o ExplicitDomainNames(DomainRows, proj.id)

\* deployment.Deployment.UpdateState: one UPDATE of the row; moving to
\* deployed also stamps deployed_at
UpdateState(row, state, t) ==
  IF state = StateDeployed
    THEN [row EXCEPT !.state = state, !.deployed_at = t]
    ELSE [row EXCEPT !.state = state]

(***************************************************************************)
(* Object-store keys are paths: sequences of segments joined by "/".       *)
(***************************************************************************)
BundleKey(prefixID, useRawBundle) ==
  << "deployments", prefixID,
     IF useRawBundle THEN "raw-bundle.tar.gz" ELSE "optimized-bundle.tar.gz" >>

RawBundleKey(prefix, id) ==
  << "deployments", prefix \o "-" \o ToString(id), "raw-bundle.tar.gz" >>

WebrootKey(prefixID, fileName) ==
  << "deployments", prefixID, "webroot", fileName >>

MetaKey(domain) == << "domains", domain, "meta.json" >>

\* faulty variant: the tag lacks omitempty
MetaJson_NoOmitEmpty(prefixID, forceHTTPS) ==
  [prefix |-> prefixID, force_https |-> forceHTTPS]

\* json.Marshal of struct{Prefix; ForceHTTPS `omitempty`}: the force_https
\* member is left out when false
MetaJson(prefixID, forceHTTPS) ==
  IF forceHTTPS
    THEN [prefix |-> prefixID, force_https |-> TRUE]
    ELSE [prefix |-> prefixID]

S3Put(bucket, key, body) ==
  [k \in DOMAIN bucket \cup {key} |-> IF k = key THEN body ELSE bucket[k]]

(***************************************************************************)
(* Initial state: project 1 has a live deployment (id 1) and a second      *)
(* deployment (id 2) somewhere in the pipeline; project 2 has a deployment *)
(* (id 3) whose Create request failed before or after the upload, or      *)
(* succeeded.                                                              *)
(***************************************************************************)
\* a JSON object of environment variables is a function from its keys
NoVars == [k \in {} |-> ""]

NewDeployment(id, pid, uid, prefix) ==
  [id |-> id, project_id |-> pid, user_id |-> uid, prefix |-> prefix,
   state |-> StatePendingUpload, deployed_at |-> NULL,
   raw_bundle_id |-> NULL, js_env_vars |-> NoVars]

NewProject(id) ==
  [id |-> id, name |-> ProjectName[id], user_id |-> 1,
   active_deployment_id |-> NULL, locked_at |-> NULL,
   force_https |-> (id = 1), default_domain_enabled |-> TRUE,
   skip_build |-> FALSE, basic_auth_username |-> nil,
   encrypted_basic_auth_password |-> nil]

CertKeys(domain) ==
  << << "certs", domain, "ssl.crt" >>, << "certs", domain, "ssl.key" >> >>

\* The locals of Work before the job is decoded: d is the zero
\* DeployJobData, depl and proj are the zero structs.  loadedState is the
\* state column as line 71 read it; events lists, in order, the calls this
\* run has made to the object store and the exchange, each with its target
\* and whether it succeeded, and its commits.
IdleWorker ==
  [pc |-> "idle", result |-> nil,
   d |-> [deployment_id |-> 0, skip_webroot_upload |-> FALSE,
          skip_invalidation |-> FALSE, use_raw_bundle |-> FALSE],
   fromQueue |-> FALSE,
   depl |-> [id |-> NULL], loadedState |-> "", proj |-> [id |-> NULL],
   entries |-> << >>, truncated |-> FALSE,
   domainNames |-> << >>, next |-> 1, tx |-> << >>, events |-> << >>]

IdleRequest ==
  [pc |-> "idle", proj |-> NULL, depl |-> NULL, payload |-> NULL,
   status |-> 0]

InitWebroot(bucket, prefixID) ==
  S3Put(S3Put(bucket, WebrootKey(prefixID, "index.html"), "index.html"),
        WebrootKey(prefixID, "js/app.js"), "js/app.js")

\* enabled is the default_domain_enabled column of both projects, username
\* the basic-auth user of project 1
InitStore(jsEnvVars, enabled, username) ==
  \E st2 \in {StatePendingBuild, StatePendingDeploy, StateFailed},
     st3 \in {StatePendingUpload, StateUploaded, StatePendingDeploy} :
    LET d1 == [NewDeployment(1, 1, 1, "ab12") EXCEPT
                 !.state = StateDeployed, !.deployed_at = 1,
                 !.raw_bundle_id = 1, !.js_env_vars = jsEnvVars]
        d2 == [NewDeployment(2, 1, 1, "cd34") EXCEPT !.state = st2]
        d3 == [NewDeployment(3, 2, 1, "ab12") EXCEPT !.state = st3]
        p1 == [NewProject(1) EXCEPT
                 !.active_deployment_id = 1,
                 !.default_domain_enabled = enabled,
                 !.basic_auth_username = username,
                 !.encrypted_basic_auth_password =
                   IF username = nil THEN nil
                   ELSE "sha256(" \o username \o ":pass)"]
        p2 == [NewProject(2) EXCEPT !.default_domain_enabled = enabled]
        b0 == [k \in {BundleKey(PrefixID(d1), TRUE),
                      BundleKey(PrefixID(d1), FALSE)} |-> GoodArchive]
        \* a build fails on an archive that cannot be read to its end
        b1 == S3Put(b0, BundleKey(PrefixID(d2), TRUE),
                    IF st2 = StateFailed THEN TruncatedArchive
                                         ELSE GoodArchive)
        b2 == IF st2 = StatePendingDeploy
                THEN S3Put(b1, BundleKey(PrefixID(d2), FALSE), GoodArchive)
                ELSE b1
        b3 == IF st3 # StatePendingUpload
                THEN S3Put(b2, BundleKey(PrefixID(d3), TRUE), GoodArchive)
                ELSE b2
        b4 == InitWebroot(b3, PrefixID(d1))
        b5 == S3Put(S3Put(b4, MetaKey("foo.rise.cloud"),
                          MetaJson(PrefixID(d1), p1.force_https)),
                    MetaKey("www.foo.com"),
                    MetaJson(PrefixID(d1), p1.force_https))
        \* the certificate of the explicit domain
        b6 == S3Put(S3Put(b5, CertKeys("www.foo.com")[1], "crt"),
                    CertKeys("www.foo.com")[2], "key")
    IN /\ deployments = << d1, d2, d3 >>
       /\ projects = [p \in ProjectIDs |-> IF p = 1 THEN p1 ELSE p2]
       /\ s3 = b6
       /\ worker = [w \in Workers |-> IdleWorker]
       /\ request = IdleRequest
       /\ queue = {}
       /\ now = 2
       /\ deliveries = 0
       /\ creates = 0
       /\ builds = << >>
       /\ changes = 0
       /\ tables =
            [domains |-> DomainRows,
             certs |-> {[domain |-> "www.foo.com"]},
             raw_bundles |->
               << [id |-> 1, project_id |-> 1,
                   uploaded_path |-> RawBundleKey(d1.prefix, d1.id)],
                  [id |-> 2, project_id |-> 1,
                   uploaded_path |-> RawBundleKey(d2.prefix, d2.id)] >>]
       /\ s3Deletes = << >>
       /\ published = << >>

InitWith(jsEnvVars) == InitStore(jsEnvVars, TRUE, nil)

Init == InitWith(NoVars)

(***************************************************************************)
(* The deploy job.  json.Unmarshal into messages.DeployJobData: members    *)
(* missing from the document keep their zero value, members the struct     *)
(* does not have are dropped, bytes that are not JSON are an error.        *)
(***************************************************************************)
Malformed == [malformed |-> TRUE]

Member(data, name, zero) == IF name \in DOMAIN data THEN data[name] ELSE zero

Unmarshal(data) ==
  [deployment_id |-> Member(data, "deployment_id", 0),
   skip_webroot_upload |-> Member(data, "skip_webroot_upload", FALSE),
   skip_invalidation |-> Member(data, "skip_invalidation", FALSE),
   use_raw_bundle |-> Member(data, "use_raw_bundle", FALSE)]

\* Jobs of the other producers of the deploy queue (the builder and the
\* configuration handlers), and redeliveries of them; the deployment of a
\* job may have been deleted since.
ExternalJobs ==
  [deployment_id : 1..(Len(deployments) + 1), skip_webroot_upload : BOOLEAN,
   skip_invalidation : BOOLEAN, use_raw_bundle : BOOLEAN]

(***************************************************************************)
(* Work (deployer/deployer/deployer.go).                                   *)
(***************************************************************************)
Log(me, ev) == Append(me.events, ev)

\* return err: the deferred tx.Rollback() drops the uncommitted writes
Return(w, me, err) ==
  worker' = [worker EXCEPT ![w] = [me EXCEPT !.pc = "done", !.result = err,
                                             !.tx = << >>]]

Goto(w, me, pc) == worker' = [worker EXCEPT ![w] = [me EXCEPT !.pc = pc]]

\* faulty variant: only the uploaded state is refused
BundleNotReady_OnlyUploaded(state) == state = StateUploaded

\* faulty variant: a deployment waiting to be deployed is refused as well
BundleNotReady_PendingDeployToo(state) ==
  state \in {StateUploaded, StatePendingUpload, StatePendingDeploy}

\* line 76: the bundle is not uploaded or not prepared for deploying
BundleNotReady(state) ==
  state = StateUploaded \/ state = StatePendingUpload

\* faulty variant: the flag is ignored
UploadsWebroot_Always(d) == TRUE

\* line 87: whether this job publishes the webroot
UploadsWebroot(d) == ~d.skip_webroot_upload

\* faulty variant: the check is missing
AlreadyDeployed_Never(depl) == FALSE

\* line 89: a deployed deployment is not uploaded again
AlreadyDeployed(depl) == depl.state = StateDeployed

\* lines 58-80: decode the job, load the deployment, check its state
LoadDeployment(w, inputs) ==
  /\ worker[w].pc \in {"idle", "done"}
  /\ \E data \in inputs, dbOK \in BOOLEAN :
       LET me == [IdleWorker EXCEPT !.result = running,
                                    !.fromQueue = (data \in queue)]
       IN IF "malformed" \in DOMAIN data THEN Return(w, me, errDecode)
          ELSE LET d == Unmarshal(data)
                   me1 == [me EXCEPT !.d = d]
               IN IF ~dbOK THEN Return(w, me1, errDB)
                  ELSE IF d.deployment_id \notin 1..Len(deployments)
                    THEN Return(w, me1, errRecordNotFound)
                  ELSE LET depl == deployments[d.deployment_id]
                           me2 == [me1 EXCEPT !.depl = depl,
                                              !.loadedState = depl.state]
                       IN IF BundleNotReady(depl.state)
                            THEN Return(w, me2, errUnexpectedState)
                            ELSE Goto(w, me2, "loadProject")
  /\ UNCHANGED << deployments, projects, s3, request, queue, now, creates,
                  configVars >>

\* one delivery of a job to worker w
WorkLoadDeployment(w, inputs) ==
  /\ deliveries < MaxDeliveries
  /\ deliveries' = deliveries + 1
  /\ LoadDeployment(w, inputs)

\* lines 82-91: load the project, refuse to upload a deployed deployment
WorkLoadProject(w) ==
  /\ worker[w].pc = "loadProject"
  /\ LET me == worker[w]
     IN \E dbOK \in BOOLEAN :
          IF ~dbOK THEN Return(w, me, errDB)
          ELSE LET me1 == [me EXCEPT !.proj = projects[me.depl.project_id]]
               IN IF ~UploadsWebroot(me.d) THEN Goto(w, me1, "listDomains")
                  ELSE IF AlreadyDeployed(me.depl)
                    THEN Return(w, me1, errUnexpectedState)
                    ELSE Goto(w, me1, "download")
  /\ UNCHANGED << deployments, projects, s3, request, queue, now, deliveries,
                  creates,
                  configVars >>

\* after tar entry i has been handled: tr.Next() of the following entry is
\* a read of the local temporary file
AfterEntry(me, i) ==
  IF i < Len(me.entries) THEN [me EXCEPT !.pc = "upload", !.next = i + 1]
  ELSE IF me.truncated
    THEN [me EXCEPT !.pc = "done", !.result = errArchive, !.tx = << >>]
    ELSE [me EXCEPT !.pc = "listDomains"]

\* faulty variant: directory entries are uploaded like files
SkipDirs_None(entries, i) == i

\* tr.Next() until the first regular file: directories are skipped
RECURSIVE SkipDirs(_, _)
SkipDirs(entries, i) ==
  IF i <= Len(entries) /\ entries[i].dir THEN SkipDirs(entries, i + 1) ELSE i

\* lines 93-122: download the bundle to a temporary file and open it
WorkDownload(w) ==
  /\ worker[w].pc = "download"
  /\ LET me == worker[w]
         bundlePath == BundleKey(PrefixID(me.depl), me.d.use_raw_bundle)
     IN \E s3OK \in BOOLEAN :
          LET ok == s3OK /\ bundlePath \in DOMAIN s3
              me1 == [me EXCEPT !.events =
                        Log(me, << "download", bundlePath, ok >>)]
          IN
          IF ~ok THEN Return(w, me1, errS3)
          ELSE LET body == s3[bundlePath]
               IN IF ~body.gzip THEN Return(w, me1, errArchive)
                  ELSE LET me2 == [me1 EXCEPT !.entries = body.entries,
                                              !.truncated = body.truncated]
                           first == SkipDirs(body.entries, 1)
                       IN worker' = [worker EXCEPT ![w] =
                                       AfterEntry(me2, first - 1)]
  /\ UNCHANGED << deployments, projects, s3, request, queue, now, deliveries,
                  creates,
                  configVars >>

\* lines 125-149: upload one regular file of the archive to the webroot
WorkUploadFile(w) ==
  /\ worker[w].pc = "upload"
  /\ LET me == worker[w]
         fileName == me.entries[me.next].name
         remotePath == WebrootKey(PrefixID(me.depl), fileName)
         last == SkipDirs(me.entries, me.next + 1) - 1
     IN \E s3OK \in BOOLEAN :
          LET me1 == [me EXCEPT !.events =
                        Log(me, << "upload", remotePath, s3OK >>)]
          IN
          IF ~s3OK
            THEN /\ Return(w, me1, errS3)
                 /\ s3' = s3
            ELSE /\ worker' = [worker EXCEPT ![w] = AfterEntry(me1, last)]
                 /\ s3' = S3Put(s3, remotePath, fileName)
  /\ UNCHANGED << deployments, projects, request, queue, now, deliveries,
                  creates,
                  configVars >>

\* faulty variant: the lock is not looked at
ProjectIsLocked_Never(proj) == FALSE

\* lines 152-154: the administrative lock, as read with the project row
ProjectIsLocked(proj) == proj.locked_at # NULL

\* lines 152-173: lock check, pointer document, names of the project's domains
WorkListDomains(w) ==
  /\ worker[w].pc = "listDomains"
  /\ LET me == worker[w]
     IN IF ProjectIsLocked(me.proj) THEN Return(w, me, ErrProjectLocked)
        ELSE \E dbOK \in BOOLEAN :
               IF ~dbOK THEN Return(w, me, errDB)
               ELSE worker' = [worker EXCEPT ![w] =
                      [me EXCEPT !.domainNames = DomainNames(me.proj),
                                 !.next = 1, !.pc = "uploadMeta"]]
  /\ UNCHANGED << deployments, projects, s3, request, queue, now, deliveries,
                  creates,
                  configVars >>

\* faulty variant: the error of the upload is dropped and the loop goes on
WorkUploadMeta_IgnoresError(w) ==
  /\ worker[w].pc = "uploadMeta"
  /\ LET me == worker[w]
         domain == me.domainNames[me.next]
         metaJson == MetaJson(PrefixID(me.depl), me.proj.force_https)
     IN \E s3OK \in BOOLEAN :
          LET me1 == [me EXCEPT !.events =
                        Log(me, << "upload", MetaKey(domain), s3OK >>)]
          IN /\ s3' = IF s3OK THEN S3Put(s3, MetaKey(domain), metaJson) ELSE s3
             /\ worker' = [worker EXCEPT ![w] =
                  IF me.next < Len(me.domainNames)
                    THEN [me1 EXCEPT !.next = me.next + 1]
                    ELSE [me1 EXCEPT !.pc = "publish"]]
  /\ UNCHANGED << deployments, projects, request, queue, now, deliveries,
                  creates,
                  configVars >>

\* faulty variant: the loop ends after the first domain
WorkUploadMeta_FirstOnly(w) ==
  /\ worker[w].pc = "uploadMeta"
  /\ LET me == worker[w]
         domain == me.domainNames[me.next]
         metaJson == MetaJson(PrefixID(me.depl), me.proj.force_https)
     IN \E s3OK \in BOOLEAN :
          LET me1 == [me EXCEPT !.events =
                        Log(me, << "upload", MetaKey(domain), s3OK >>)]
          IN
          IF ~s3OK
            THEN /\ Return(w, me1, errS3)
                 /\ s3' = s3
            ELSE /\ s3' = S3Put(s3, MetaKey(domain), metaJson)
                 /\ worker' = [worker EXCEPT ![w] =
                                 [me1 EXCEPT !.pc = "publish"]]
  /\ UNCHANGED << deployments, projects, request, queue, now, deliveries,
                  creates,
                  configVars >>

\* lines 175-180: upload the pointer document of one domain
WorkUploadMeta(w) ==
  /\ worker[w].pc = "uploadMeta"
  /\ LET me == worker[w]
         domain == me.domainNames[me.next]
         metaJson == MetaJson(PrefixID(me.depl), me.proj.force_https)
     IN \E s3OK \in BOOLEAN :
          LET me1 == [me EXCEPT !.events =
                        Log(me, << "upload", MetaKey(domain), s3OK >>)]
          IN
          IF ~s3OK
            THEN /\ Return(w, me1, errS3)
                 /\ s3' = s3
            ELSE /\ s3' = S3Put(s3, MetaKey(domain), metaJson)
                 /\ worker' = [worker EXCEPT ![w] =
                      IF me.next < Len(me.domainNames)
                        THEN [me1 EXCEPT !.next = me.next + 1]
                        ELSE [me1 EXCEPT !.pc = "publish"]]
  /\ UNCHANGED << deployments, projects, request, queue, now, deliveries,
                  creates,
                  configVars >>

\* faulty variant: the flag is ignored
Invalidates_Always(d) == TRUE

\* line 182: whether this job broadcasts an invalidation
Invalidates(d) == ~d.skip_invalidation

\* faulty variant: only the default domain is listed
InvalidationMessage_DefaultOnly(me) ==
  [domains |-> << DefaultDomainName(me.proj) >>]

\* lines 183-185: messages.V1InvalidationMessageData of this run
InvalidationMessage(me) == [domains |-> me.domainNames]

\* lines 182-193: publish the invalidation to the edges exchange
WorkPublish(w) ==
  /\ worker[w].pc = "publish"
  /\ LET me == worker[w]
     IN IF ~Invalidates(me.d) THEN Goto(w, me, "updateState")
        ELSE \E mqOK \in BOOLEAN :
               LET me1 == [me EXCEPT !.events =
                             Log(me, << "publish", InvalidationMessage(me),
                                        mqOK >>)]
               IN IF ~mqOK THEN Return(w, me1, errMQ)
                  ELSE Goto(w, me1, "updateState")
  /\ UNCHANGED << deployments, projects, s3, request, queue, now, deliveries,
                  creates,
                  configVars >>

\* faulty variant: the UPDATE runs on db instead of tx
WorkUpdateState_OutsideTx(w) ==
  /\ worker[w].pc = "updateState"
  /\ LET me == worker[w]
     IN /\ worker' = [worker EXCEPT ![w] =
             [me EXCEPT !.depl = UpdateState(me.depl, StateDeployed, now),
                        !.pc = "updateProject"]]
        /\ deployments' = [deployments EXCEPT ![me.depl.id] =
             UpdateState(deployments[me.depl.id], StateDeployed, now)]
        /\ now' = now + 1
  /\ UNCHANGED << projects, s3, request, queue, deliveries, creates,
                  configVars >>

\* lines 195-203: begin the transaction, UPDATE the deployment inside it
WorkUpdateState(w) ==
  /\ worker[w].pc = "updateState"
  /\ LET me == worker[w]
     IN \E dbOK \in BOOLEAN :
          IF ~dbOK THEN Return(w, me, errDB) /\ now' = now
          ELSE /\ worker' = [worker EXCEPT ![w] =
                    [me EXCEPT
                       !.tx = Append(me.tx, << "deployments", me.depl.id,
                                               StateDeployed, now >>),
                       !.depl = UpdateState(me.depl, StateDeployed, now),
                       !.pc = "updateProject"]]
               /\ now' = now + 1
  /\ UNCHANGED << deployments, projects, s3, request, queue, deliveries,
                  creates,
                  configVars >>

\* faulty variant: the row is selected by the deployment's id
WorkUpdateProject_WrongRow(w) ==
  /\ worker[w].pc = "updateProject"
  /\ LET me == worker[w]
     IN worker' = [worker EXCEPT ![w] =
          [me EXCEPT !.tx = Append(me.tx, << "projects", me.depl.id,
                                            me.depl.id >>),
                     !.pc = "commit"]]
  /\ UNCHANGED << deployments, projects, s3, request, queue, now, deliveries,
                  creates,
                  configVars >>

\* lines 205-207: UPDATE projects SET active_deployment_id inside the
\* transaction
WorkUpdateProject(w) ==
  /\ worker[w].pc = "updateProject"
  /\ LET me == worker[w]
     IN \E dbOK \in BOOLEAN :
          IF ~dbOK THEN Return(w, me, errDB)
          ELSE worker' = [worker EXCEPT ![w] =
                 [me EXCEPT
                    !.tx = Append(me.tx, << "projects", me.proj.id,
                                            me.depl.id >>),
                    !.pc = "commit"]]
  /\ UNCHANGED << deployments, projects, s3, request, queue, now, deliveries,
                  creates,
                  configVars >>

\* the writes of a committed transaction, applied in statement order
RECURSIVE CommitDeployments(_, _)
CommitDeployments(rows, tx) ==
  IF tx = << >> THEN rows
  ELSE LET wr == Head(tx)
           rows1 == IF wr[1] = "deployments"
                      THEN [rows EXCEPT ![wr[2]] =
                              UpdateState(rows[wr[2]], wr[3], wr[4])]
                      ELSE rows
       IN CommitDeployments(rows1, Tail(tx))

RECURSIVE CommitProjects(_, _)
CommitProjects(rows, tx) ==
  IF tx = << >> THEN rows
  ELSE LET wr == Head(tx)
           rows1 == IF wr[1] = "projects"
                      THEN [rows EXCEPT ![wr[2]].active_deployment_id = wr[3]]
                      ELSE rows
       IN CommitProjects(rows1, Tail(tx))

\* lines 209-211: commit
WorkCommit(w) ==
  /\ worker[w].pc = "commit"
  /\ LET me == worker[w]
     IN \E dbOK \in BOOLEAN :
          IF ~dbOK
            THEN /\ Return(w, me, errDB)
                 /\ UNCHANGED << deployments, projects >>
            ELSE /\ deployments' = CommitDeployments(deployments, me.tx)
                 /\ projects' = CommitProjects(projects, me.tx)
                 /\ worker' = [worker EXCEPT ![w] =
                      [me EXCEPT !.events = Log(me, << "commit", me.tx >>),
                                 !.tx = << >>, !.pc = "track"]]
  /\ UNCHANGED << s3, request, queue, now, deliveries, creates,
                  configVars >>

\* faulty variant: an error of the user lookup or of Track is returned
WorkTrack_ReturnsErr(w) ==
  /\ worker[w].pc = "track"
  /\ LET me == worker[w]
     IN \E userOK \in BOOLEAN, trackOK \in BOOLEAN :
          worker' = [worker EXCEPT ![w] =
            [me EXCEPT !.events = IF userOK
                                    THEN Log(me, << "track", trackOK >>)
                                    ELSE me.events,
                       !.pc = "done",
                       !.result = IF userOK /\ trackOK THEN nil ELSE errDB]]
  /\ UNCHANGED << deployments, projects, s3, request, queue, now, deliveries,
                  creates,
                  configVars >>

\* lines 213-235: best-effort analytics, then return nil
WorkTrack(w) ==
  /\ worker[w].pc = "track"
  /\ LET me == worker[w]
     IN \E userOK \in BOOLEAN, trackOK \in BOOLEAN :
          worker' = [worker EXCEPT ![w] =
            [me EXCEPT !.events = IF userOK
                                    THEN Log(me, << "track", trackOK >>)
                                    ELSE me.events,
                       !.pc = "done", !.result = nil]]
  /\ UNCHANGED << deployments, projects, s3, request, queue, now, deliveries,
                  creates,
                  configVars >>

\* The worker process dies while its transaction is open: the connection is
\* closed, which rolls the transaction back; the job is not acknowledged.
crashed == "crashed"

WorkCrash(w) ==
  /\ worker[w].pc \in {"updateState", "updateProject", "commit"}
  /\ worker' = [worker EXCEPT ![w] =
       [worker[w] EXCEPT !.pc = "done", !.result = crashed, !.tx = << >>]]
  /\ UNCHANGED << deployments, projects, s3, request, queue, now, deliveries,
                  creates,
                  configVars >>

(***************************************************************************)
(* Create (controllers/deployments): POST /projects/:name/deployments.     *)
(***************************************************************************)
UserIDs == {1, 2}

RequestNames == {"bar", "nope"}

NoPayload == [missing |-> TRUE]

\* project.FindByName: the row with that name, nil when there is none
FindByName(name) ==
  IF \E p \in DOMAIN projects : projects[p].name = name
    THEN projects[CHOOSE p \in DOMAIN projects : projects[p].name = name]
    ELSE [id |-> NULL, user_id |-> NULL]

Respond(status) ==
  request' = [IdleRequest EXCEPT !.pc = "idle", !.status = status]

\* the response; the request it answers stays on record
Reply(status, u, name, input) ==
  request' = [IdleRequest EXCEPT
                !.status = status,
                !.payload = [user |-> u, name |-> name, input |-> input]]

\* faulty variant: any user may use an existing project
NotFound_IgnoresOwner(proj, u) == proj.id = NULL

\* RequireProject, and lines 32-37 of Create: the project does not exist or
\* its owner is not the current user
NotFound(proj, u) == proj.id = NULL \/ proj.user_id # u

\* lines 19-92: authorisation, the parts of the body up to "payload", and
\* the INSERT of the deployment
CreateInsert ==
  /\ request.pc = "idle"
  /\ creates < MaxCreates
  /\ creates' = creates + 1
  /\ \E u \in UserIDs, name \in RequestNames,
        payload \in Payloads \cup {NoPayload}, prefix \in Prefixes,
        dbOK \in BOOLEAN :
       LET proj == FindByName(name)
           depl == NewDeployment(Len(deployments) + 1, proj.id, u, prefix)
       IN IF NotFound(proj, u)
            THEN Reply(404, u, name, payload) /\ deployments' = deployments
          ELSE IF "missing" \in DOMAIN payload
            THEN Reply(422, u, name, payload) /\ deployments' = deployments
          ELSE IF ~dbOK
            THEN Reply(500, u, name, payload) /\ deployments' = deployments
          ELSE /\ deployments' = Append(deployments, depl)
               /\ request' = [pc |-> "upload", proj |-> proj, depl |-> depl,
                              payload |-> payload, status |-> 0]
  /\ UNCHANGED << projects, s3, worker, queue, now, deliveries,
                  configVars >>

\* lines 94-100: upload the "payload" part as the raw bundle
CreateUpload ==
  /\ request.pc = "upload"
  /\ LET uploadKey == RawBundleKey(request.depl.prefix, request.depl.id)
     IN \E s3OK \in BOOLEAN :
          IF ~s3OK THEN Respond(500) /\ s3' = s3
          ELSE /\ s3' = S3Put(s3, uploadKey, request.payload)
               /\ request' = [request EXCEPT !.pc = "setUploaded"]
  /\ UNCHANGED << deployments, projects, worker, queue, now, deliveries,
                  creates,
                  configVars >>

\* db.Model(&depl).UpdateColumn("state", state): UPDATE ... WHERE id = depl.id
UpdateColumnState(rows, id, state) == [rows EXCEPT ![id].state = state]

\* lines 104-107
CreateSetUploaded ==
  /\ request.pc = "setUploaded"
  /\ \E dbOK \in BOOLEAN :
       IF ~dbOK THEN Respond(500) /\ deployments' = deployments
       ELSE /\ deployments' =
                 UpdateColumnState(deployments, request.depl.id, StateUploaded)
            /\ request' = [request EXCEPT !.pc = "enqueue",
                                          !.depl.state = StateUploaded]
  /\ UNCHANGED << projects, s3, worker, queue, now, deliveries, creates,
                  configVars >>

\* lines 109-114: the body of the Deploy job
CreateJob(depl, proj) ==
  [deployment_id |-> depl.id, deployment_prefix |-> depl.prefix,
   project_name |-> proj.name, domain |-> proj.name \o ".rise.cloud"]

\* faulty variant: the error of Enqueue is dropped
CreateEnqueue_IgnoresError ==
  /\ request.pc = "enqueue"
  /\ \E mqOK \in BOOLEAN :
       /\ queue' = IF mqOK
                     THEN queue \cup {CreateJob(request.depl, request.proj)}
                     ELSE queue
       /\ request' = [request EXCEPT !.pc = "setPendingDeploy"]
  /\ UNCHANGED << deployments, projects, s3, worker, now, deliveries, creates,
                  configVars >>

\* lines 109-123
CreateEnqueue ==
  /\ request.pc = "enqueue"
  /\ \E mqOK \in BOOLEAN :
       IF ~mqOK THEN Respond(500) /\ queue' = queue
       ELSE /\ queue' = queue \cup {CreateJob(request.depl, request.proj)}
            /\ request' = [request EXCEPT !.pc = "setPendingDeploy"]
  /\ UNCHANGED << deployments, projects, s3, worker, now, deliveries, creates,
                  configVars >>

\* lines 125-132
CreateSetPendingDeploy ==
  /\ request.pc = "setPendingDeploy"
  /\ \E dbOK \in BOOLEAN :
       IF ~dbOK THEN Respond(500) /\ deployments' = deployments
       ELSE /\ deployments' =
                 UpdateColumnState(deployments, request.depl.id,
                                   StatePendingDeploy)
            /\ Respond(202)
  /\ UNCHANGED << projects, s3, worker, queue, now, deliveries, creates,
                  configVars >>

(***************************************************************************)
(* jsenvvars (controllers/jsenvvars): PUT /projects/:project_name/         *)
(* jsenvvars/add and .../delete, as their tests describe them.             *)
(***************************************************************************)
Keys == {"foo", "baz"}

Values == {"bar", "qux"}

\* the JSON objects over Keys and Values
JsEnvVarSets == UNION {[S -> Values] : S \in SUBSET Keys}

\* faulty variant of the add: the body replaces the whole variable set
MergeVars_Replace(old, params) == params

\* add: the members of the body are set, the other variables are kept
MergeVars(old, params) ==
  [k \in DOMAIN old \cup DOMAIN params |->
     IF k \in DOMAIN params THEN params[k] ELSE old[k]]

\* delete: the variables named by "keys" are dropped
DeleteVars(old, keys) == [k \in DOMAIN old \ keys |-> old[k]]

NewJsEnvVars(old, input) ==
  IF input.op = "add" THEN MergeVars(old, input.params)
                      ELSE DeleteVars(old, input.keys)

EmptyBody(input) ==
  IF input.op = "add" THEN input.params = NoVars ELSE input.keys = {}

\* faulty variant: the variables of the live deployment are rewritten and
\* it is sent to the builder again
ChangeJsEnvVars_InPlace(active, u, prefix, newVars) ==
  /\ deployments' = [deployments EXCEPT ![active.id].js_env_vars = newVars]
  /\ builds' = Append(builds, [deployment_id |-> active.id])

\* a new deployment of the same raw bundle with the new variables, handed
\* to the builder
ChangeJsEnvVars(active, u, prefix, newVars) ==
  LET id == Len(deployments) + 1
      depl == [NewDeployment(id, active.project_id, u, prefix) EXCEPT
                 !.state = StatePendingBuild,
                 !.raw_bundle_id = active.raw_bundle_id,
                 !.js_env_vars = newVars]
  IN /\ deployments' = Append(deployments, depl)
     /\ builds' = Append(builds, [deployment_id |-> id])

JsEnvVarsRequest(u, name, op, json, body, prefix) ==
  /\ changes < MaxChanges
  /\ changes' = changes + 1
  /\ LET input == IF op = "add"
                    THEN [op |-> op, json |-> json, params |-> body]
                    ELSE [op |-> op, json |-> json, keys |-> body]
         proj == FindByName(name)
         refused(status) == /\ Reply(status, u, name, input)
                            /\ UNCHANGED << deployments, builds >>
     IN IF proj.id = NULL \/ proj.user_id # u THEN refused(404)
        ELSE IF proj.locked_at # NULL THEN refused(423)
        ELSE IF ~input.json THEN refused(400)
        ELSE IF EmptyBody(input) THEN refused(422)
        ELSE IF proj.active_deployment_id = NULL THEN refused(412)
        ELSE LET active == deployments[proj.active_deployment_id]
                 newVars == NewJsEnvVars(active.js_env_vars, input)
             IN IF newVars = active.js_env_vars THEN refused(202)
                ELSE /\ ChangeJsEnvVars(active, u, prefix, newVars)
                     /\ Reply(202, u, name, input)
  /\ UNCHANGED << projects, s3, worker, queue, now, deliveries, creates,
                  projectVars >>

JsEnvVarsAdd ==
  \E u \in UserIDs, name \in RequestNames \cup {"foo"}, json \in BOOLEAN,
     params \in JsEnvVarSets, prefix \in Prefixes :
    JsEnvVarsRequest(u, name, "add", json,
                     IF json THEN params ELSE NoVars, prefix)

JsEnvVarsDelete ==
  \E u \in UserIDs, name \in RequestNames \cup {"foo"},
     keys \in SUBSET Keys, prefix \in Prefixes :
    JsEnvVarsRequest(u, name, "delete", TRUE, keys, prefix)

(***************************************************************************)
(* projects (controllers/projects): PUT and DELETE /projects/:name, POST   *)
(* and DELETE /projects/:name/auth, as their tests describe them.          *)
(***************************************************************************)
\* faulty variant: the lock is not looked at
IsLocked_Never(proj) == FALSE

IsLocked(proj) == proj.locked_at # NULL

\* what ends a request before the handler's body: the project is not the
\* user's (404) or it is locked (423); 0 when the handler goes on
Precheck(proj, u) ==
  IF proj.id = NULL \/ proj.user_id # u THEN 404
  ELSE IF IsLocked(proj) THEN 423
  ELSE 0

\* faulty variant: the job uploads the webroot again
ConfigJob_UploadsWebroot(id, skipInvalidation) ==
  [deployment_id |-> id, skip_webroot_upload |-> FALSE,
   skip_invalidation |-> skipInvalidation, use_raw_bundle |-> FALSE]

\* the Deploy job that rewrites the pointer documents of a live deployment
ConfigJob(id, skipInvalidation) ==
  [deployment_id |-> id, skip_webroot_upload |-> TRUE,
   skip_invalidation |-> skipInvalidation, use_raw_bundle |-> FALSE]

\* the deploy queue after a change of what the pointer documents say
WithConfigJob(proj, skipInvalidation) ==
  IF proj.active_deployment_id = NULL THEN queue
  ELSE queue \cup {ConfigJob(proj.active_deployment_id, skipInvalidation)}

\* S3 Delete: the objects with these keys are gone, other keys are ignored
S3Delete(bucket, keys) ==
  [k \in DOMAIN bucket \ {keys[i] : i \in 1..Len(keys)} |-> bucket[k]]

\* "/domains/<domain>/meta.json": with the leading slash the first segment
\* of the path is empty
RootedMetaKey(domain) == << "" >> \o MetaKey(domain)

\* the default domain stops serving the live deployment
DisableDefaultDomain(proj) ==
  IF proj.active_deployment_id = NULL
    THEN UNCHANGED << s3, s3Deletes, published >>
    ELSE LET keys == << RootedMetaKey(DefaultDomainName(proj)) >>
         IN /\ s3' = S3Delete(s3, keys)
            /\ s3Deletes' = Append(s3Deletes, keys)
            /\ published' =
                 Append(published,
                        [domains |-> << DefaultDomainName(proj) >>])

UpdateFields == {"default_domain_enabled", "force_https", "skip_build"}

\* PUT /projects/:name with one of the three settings
Update(u, name, field, value) ==
  /\ changes < MaxChanges
  /\ changes' = changes + 1
  /\ LET proj == FindByName(name)
         input == [op |-> "update", field |-> field, value |-> value]
         status == Precheck(proj, u)
     IN IF status # 0
          THEN /\ Reply(status, u, name, input)
               /\ UNCHANGED << projects, s3, queue, s3Deletes, published >>
          ELSE /\ projects' = [projects EXCEPT ![proj.id][field] = value]
               /\ Reply(200, u, name, input)
               /\ IF field = "default_domain_enabled" /\ proj[field] /\ ~value
                    THEN DisableDefaultDomain(proj) /\ queue' = queue
                  ELSE IF field = "default_domain_enabled" /\ ~proj[field]
                          /\ value
                    THEN /\ queue' = WithConfigJob(proj, TRUE)
                         /\ UNCHANGED << s3, s3Deletes, published >>
                  ELSE IF field = "force_https" /\ proj[field] # value
                    THEN /\ queue' = WithConfigJob(proj, FALSE)
                         /\ UNCHANGED << s3, s3Deletes, published >>
                  ELSE UNCHANGED << queue, s3, s3Deletes, published >>
  /\ UNCHANGED << deployments, worker, now, deliveries, creates, builds,
                  tables >>

ProjectsUpdate ==
  \E u \in UserIDs, name \in RequestNames \cup {"foo"},
     field \in UpdateFields, value \in BOOLEAN :
    Update(u, name, field, value)

RECURSIVE DomainKeys(_)
\* the pointer document, the certificate and the key of each domain
DomainKeys(names) ==
  IF names = << >> THEN << >>
  ELSE << MetaKey(Head(names)) >> \o CertKeys(Head(names))
         \o DomainKeys(Tail(names))

RECURSIVE UploadedPaths(_, _)
UploadedPaths(rows, pid) ==
  IF rows = << >> THEN << >>
  ELSE (IF Head(rows).project_id = pid THEN << Head(rows).uploaded_path >>
                                       ELSE << >>)
         \o UploadedPaths(Tail(rows), pid)

RECURSIVE RowsOfOthers(_, _)
\* DELETE FROM ... WHERE project_id = pid
RowsOfOthers(rows, pid) ==
  IF rows = << >> THEN << >>
  ELSE (IF Head(rows).project_id = pid THEN << >> ELSE << Head(rows) >>)
         \o RowsOfOthers(Tail(rows), pid)

\* faulty variant: the certificates and the raw bundles stay in the bucket
DestroyKeys_MetaOnly(proj) ==
  LET names == ExplicitDomainNames(tables.domains, proj.id)
  IN << MetaKey(DefaultDomainName(proj)) >>
       \o [i \in 1..Len(names) |-> MetaKey(names[i])]

\* the arguments of the one Delete call of Destroy
DestroyKeys(proj) ==
  << MetaKey(DefaultDomainName(proj)) >>
    \o DomainKeys(ExplicitDomainNames(tables.domains, proj.id))
    \o UploadedPaths(tables.raw_bundles, proj.id)

\* DELETE /projects/:name
Destroy(u, name) ==
  /\ changes < MaxChanges
  /\ changes' = changes + 1
  /\ LET proj == FindByName(name)
         input == [op |-> "destroy"]
         status == Precheck(proj, u)
     IN IF status # 0
          THEN /\ Reply(status, u, name, input)
               /\ UNCHANGED << projects, s3, projectVars >>
          ELSE LET explicit == ExplicitDomainNames(tables.domains, proj.id)
                   owned == {explicit[i] : i \in 1..Len(explicit)}
                   keys == DestroyKeys(proj)
               IN /\ projects' =
                       [p \in DOMAIN projects \ {proj.id} |-> projects[p]]
                  /\ tables' =
                       [domains |-> RowsOfOthers(tables.domains, proj.id),
                        certs |-> {c \in tables.certs : c.domain \notin owned},
                        raw_bundles |->
                          RowsOfOthers(tables.raw_bundles, proj.id)]
                  /\ s3' = S3Delete(s3, keys)
                  /\ s3Deletes' = Append(s3Deletes, keys)
                  /\ published' =
                       Append(published,
                              [domains |->
                                 << DefaultDomainName(proj) >> \o explicit])
                  /\ Reply(200, u, name, input)
  /\ UNCHANGED << deployments, worker, queue, now, deliveries, creates,
                  builds >>

ProjectsDestroy ==
  \E u \in UserIDs, name \in RequestNames \cup {"foo"} : Destroy(u, name)

\* project.EncryptBasicAuthPassword: hex of sha256("<username>:<password>")
EncryptBasicAuthPassword(username, password) ==
  "sha256(" \o username \o ":" \o password \o ")"

\* POST /projects/:name/auth; a missing parameter is the empty string
CreateBasicAuth(u, name, username, password) ==
  /\ changes < MaxChanges
  /\ changes' = changes + 1
  /\ LET proj == FindByName(name)
         input == [op |-> "auth_set", username |-> username,
                   password |-> password]
         status == Precheck(proj, u)
     IN IF status # 0
          THEN Reply(status, u, name, input) /\ UNCHANGED << projects, queue >>
        ELSE IF username = "" \/ password = ""
          THEN Reply(422, u, name, input) /\ UNCHANGED << projects, queue >>
        ELSE /\ projects' =
                  [projects EXCEPT
                     ![proj.id].basic_auth_username = username,
                     ![proj.id].encrypted_basic_auth_password =
                       EncryptBasicAuthPassword(username, password)]
             /\ queue' = WithConfigJob(proj, FALSE)
             /\ Reply(200, u, name, input)
  /\ UNCHANGED << deployments, s3, worker, now, deliveries, creates, builds,
                  projectVars >>

ProjectsCreateBasicAuth ==
  \E u \in UserIDs, name \in RequestNames \cup {"foo"},
     username \in {"", "user"}, password \in {"", "pass"} :
    CreateBasicAuth(u, name, username, password)

\* DELETE /projects/:name/auth
DeleteBasicAuth(u, name) ==
  /\ changes < MaxChanges
  /\ changes' = changes + 1
  /\ LET proj == FindByName(name)
         input == [op |-> "auth_clear"]
         status == Precheck(proj, u)
     IN IF status # 0
          THEN Reply(status, u, name, input) /\ UNCHANGED << projects, queue >>
          ELSE /\ projects' =
                    [projects EXCEPT
                       ![proj.id].basic_auth_username = nil,
                       ![proj.id].encrypted_basic_auth_password = nil]
               /\ queue' = WithConfigJob(proj, FALSE)
               /\ Reply(200, u, name, input)
  /\ UNCHANGED << deployments, s3, worker, now, deliveries, creates, builds,
                  projectVars >>

ProjectsDeleteBasicAuth ==
  \E u \in UserIDs, name \in RequestNames \cup {"foo"} :
    DeleteBasicAuth(u, name)

(***************************************************************************)
(* An administrator puts a project on hold.                                *)
(***************************************************************************)
LockProject(p) ==
  /\ p \in DOMAIN projects
  /\ projects[p].locked_at = NULL
  /\ projects' = [projects EXCEPT ![p].locked_at = LockedAt]
  /\ UNCHANGED << deployments, s3, worker, request, queue, now, deliveries,
                  creates,
                  configVars >>

(***************************************************************************)
(* The system.                                                             *)
(***************************************************************************)
\* the worker processes of the deploy queue
Pool == {"w1"}

\* the deploy worker and the administrator
Next ==
  \/ \E w \in Pool : WorkLoadDeployment(w, ExternalJobs \cup {Malformed})
  \/ \E w \in Pool : WorkLoadProject(w)
  \/ \E w \in Pool : WorkDownload(w)
  \/ \E w \in Pool : WorkUploadFile(w)
  \/ \E w \in Pool : WorkListDomains(w)
  \/ \E w \in Pool : WorkUploadMeta(w)
  \/ \E w \in Pool : WorkPublish(w)
  \/ \E w \in Pool : WorkUpdateState(w)
  \/ \E w \in Pool : WorkUpdateProject(w)
  \/ \E w \in Pool : WorkCommit(w)
  \/ \E w \in Pool : WorkTrack(w)
  \/ \E w \in Pool : WorkCrash(w)
  \/ \E p \in ProjectIDs : LockProject(p)

Spec == Init /\ [][Next]_vars

\* Jobs that publish the raw bundle (projects that skip the build)
RawBundleJobs ==
  {[deployment_id |-> id, use_raw_bundle |-> TRUE] : id \in 1..Len(deployments)}

\* the API server and the deploy worker
NextAPI ==
  \/ CreateInsert
  \/ CreateUpload
  \/ CreateSetUploaded
  \/ CreateEnqueue
  \/ CreateSetPendingDeploy
  \/ \E w \in Pool : WorkLoadDeployment(w, queue \cup RawBundleJobs)
  \/ \E w \in Pool : WorkLoadProject(w)
  \/ \E w \in Pool : WorkDownload(w)
  \/ \E w \in Pool : WorkUploadFile(w)
  \/ \E w \in Pool : WorkListDomains(w)
  \/ \E w \in Pool : WorkUploadMeta(w)
  \/ \E w \in Pool : WorkPublish(w)
  \/ \E w \in Pool : WorkUpdateState(w)
  \/ \E w \in Pool : WorkUpdateProject(w)
  \/ \E w \in Pool : WorkCommit(w)
  \/ \E w \in Pool : WorkTrack(w)

SpecAPI == Init /\ [][NextAPI]_vars

\* the Create handler alone
NextCreate ==
  \/ CreateInsert
  \/ CreateUpload
  \/ CreateSetUploaded
  \/ CreateEnqueue
  \/ CreateSetPendingDeploy

SpecCreate == Init /\ [][NextCreate]_vars

\* Jobs of the builder (a deployment built from its raw bundle) and of the
\* configuration handlers (pointer documents only), delivered to either of
\* two worker processes: redeliveries and duplicates run concurrently.
ConcurrentJobs ==
  {[deployment_id |-> id, skip_webroot_upload |-> skip,
    use_raw_bundle |-> TRUE] :
     id \in 1..Len(deployments), skip \in BOOLEAN}

\* two deploy workers
NextConc ==
  \/ \E w \in Workers : WorkLoadDeployment(w, ConcurrentJobs)
  \/ \E w \in Workers : WorkLoadProject(w)
  \/ \E w \in Workers : WorkDownload(w)
  \/ \E w \in Workers : WorkUploadFile(w)
  \/ \E w \in Workers : WorkListDomains(w)
  \/ \E w \in Workers : WorkUploadMeta(w)
  \/ \E w \in Workers : WorkPublish(w)
  \/ \E w \in Workers : WorkUpdateState(w)
  \/ \E w \in Workers : WorkUpdateProject(w)
  \/ \E w \in Workers : WorkCommit(w)
  \/ \E w \in Workers : WorkTrack(w)

SpecConc == Init /\ [][NextConc]_vars

\* The jobs of the builder and of the configuration handlers, a job whose
\* deployment is gone, and a message that is not JSON
FaultJobs ==
  ConcurrentJobs
    \cup {[deployment_id |-> Len(deployments) + 1], Malformed}

\* one deploy worker whose every call may fail, and the administrator
NextFaults ==
  \/ \E w \in Pool : WorkLoadDeployment(w, FaultJobs)
  \/ \E w \in Pool : WorkLoadProject(w)
  \/ \E w \in Pool : WorkDownload(w)
  \/ \E w \in Pool : WorkUploadFile(w)
  \/ \E w \in Pool : WorkListDomains(w)
  \/ \E w \in Pool : WorkUploadMeta(w)
  \/ \E w \in Pool : WorkPublish(w)
  \/ \E w \in Pool : WorkUpdateState(w)
  \/ \E w \in Pool : WorkUpdateProject(w)
  \/ \E w \in Pool : WorkCommit(w)
  \/ \E w \in Pool : WorkTrack(w)
  \/ \E p \in ProjectIDs : LockProject(p)

SpecFaults == Init /\ [][NextFaults]_vars

\* Deploy jobs of the builder for the deployments that wait to be deployed,
\* each for a bundle that is in the bucket; the queue delivers a job again
\* until a run of it is acknowledged.
RetryJobs ==
  {j \in [deployment_id : 1..Len(deployments), use_raw_bundle : BOOLEAN] :
     /\ deployments[j.deployment_id].state = StatePendingDeploy
     /\ BundleKey(PrefixID(deployments[j.deployment_id]), j.use_raw_bundle)
          \in DOMAIN s3}

\* a delivery; the counter stops at MaxDeliveries
Redeliver(w) ==
  /\ LoadDeployment(w, RetryJobs)
  /\ deliveries' = IF deliveries < MaxDeliveries THEN deliveries + 1
                                                  ELSE deliveries

\* the step ends the run of w with an error of the database, the object
\* store or the exchange
TransientFault(w) ==
  /\ worker'[w].pc = "done"
  /\ worker'[w].result \in {errDB, errS3, errMQ}

\* transient faults stop: the runs from delivery MaxDeliveries on meet none
FaultsStop(w) == deliveries' = MaxDeliveries => ~TransientFault(w)

\* one deploy worker whose failed jobs are delivered again
NextRetry ==
  \/ \E w \in Pool : Redeliver(w) /\ FaultsStop(w)
  \/ \E w \in Pool : WorkLoadProject(w) /\ FaultsStop(w)
  \/ \E w \in Pool : WorkDownload(w) /\ FaultsStop(w)
  \/ \E w \in Pool : WorkUploadFile(w) /\ FaultsStop(w)
  \/ \E w \in Pool : WorkListDomains(w) /\ FaultsStop(w)
  \/ \E w \in Pool : WorkUploadMeta(w) /\ FaultsStop(w)
  \/ \E w \in Pool : WorkPublish(w) /\ FaultsStop(w)
  \/ \E w \in Pool : WorkUpdateState(w) /\ FaultsStop(w)
  \/ \E w \in Pool : WorkUpdateProject(w) /\ FaultsStop(w)
  \/ \E w \in Pool : WorkCommit(w) /\ FaultsStop(w)
  \/ \E w \in Pool : WorkTrack(w)

\* the worker process keeps running and the queue keeps delivering
SpecRetry == Init /\ [][NextRetry]_vars /\ WF_vars(NextRetry)

\* the live deployment of project 1 carries no variables, one, or two; the
\* other deployments are not what the handlers look at
InitEnv ==
  /\ \E jsEnvVars \in {NoVars, [k \in {"foo"} |-> "bar"],
                        [k \in Keys |-> IF k = "foo" THEN "bar" ELSE "qux"]} :
       InitWith(jsEnvVars)
  /\ deployments[2].state = StatePendingDeploy
  /\ deployments[3].state = StateUploaded

\* the configuration handlers and the administrator
NextEnv ==
  \/ JsEnvVarsAdd
  \/ JsEnvVarsDelete
  \/ \E p \in ProjectIDs : LockProject(p)

SpecEnv == InitEnv /\ [][NextEnv]_vars

\* the settings the projects handlers look at: the default domain of both
\* projects on or off, project 1 with or without basic auth
InitProj ==
  /\ \E enabled \in BOOLEAN, username \in {nil, "user"} :
       InitStore(NoVars, enabled, username)
  /\ deployments[2].state = StatePendingDeploy
  /\ deployments[3].state = StateUploaded

\* the handlers of a project's configuration and the administrator
NextProj ==
  \/ ProjectsUpdate
  \/ ProjectsDestroy
  \/ ProjectsCreateBasicAuth
  \/ ProjectsDeleteBasicAuth
  \/ JsEnvVarsAdd
  \/ JsEnvVarsDelete
  \/ \E p \in ProjectIDs : LockProject(p)

SpecProj == InitProj /\ [][NextProj]_vars

(***************************************************************************)
(* Properties.                                                             *)
(***************************************************************************)
Range(seq) == {seq[i] : i \in 1..Len(seq)}

IsMetaKey(key) == Len(key) = 3 /\ key[1] = "domains" /\ key[3] = "meta.json"

IsWebrootKey(key) ==
  Len(key) = 4 /\ key[1] = "deployments" /\ key[3] = "webroot"

\* positions in the events of worker w that carry the given tag
Calls(w, tag) ==
  {i \in 1..Len(worker[w].events) : worker[w].events[i][1] = tag}

MetaUploads(w) ==
  {i \in Calls(w, "upload") : IsMetaKey(worker[w].events[i][2])}

WebrootUploads(w) ==
  {i \in Calls(w, "upload") : IsWebrootKey(worker[w].events[i][2])}

Returned(w) == worker[w].pc = "done" /\ worker[w].result # crashed

\* the domain names bound to project p: its default domain and its rows of
\* the domains table
BoundDomains(p) ==
  {ProjectName[p] \o ".rise.cloud"}
    \cup {DomainRows[i].name :
            i \in {j \in 1..Len(DomainRows) : DomainRows[j].project_id = p}}

NextState ==
  (StatePendingUpload :> StateUploaded) @@ (StateUploaded :> StatePendingBuild)
    @@ (StatePendingBuild :> StatePendingDeploy)
    @@ (StatePendingDeploy :> StateDeployed)

LegalTransition(from, to) ==
  /\ from \notin {StateDeployed, StateFailed}
  /\ to = StateFailed \/ to = NextState[from]

\* C1: every change of a Deployment's state is one step forward along
\* pending_upload -> uploaded -> pending_build -> pending_deploy -> deployed,
\* or a move into failed; nothing leaves deployed or failed.
C1_StateStepsForward ==
  [][\A id \in 1..Len(deployments) :
       deployments'[id].state # deployments[id].state
         => LegalTransition(deployments[id].state, deployments'[id].state)]_vars

\* C2: the two writes of the activation become visible in one step or not at
\* all: a step that repoints a project at a deployment is the step that
\* writes that deployment's row as deployed with deployed_at set, a step that
\* writes a row as deployed repoints its project at it, and a run that ends
\* with an error or a crash has left both tables as they were in its last
\* step.
C2_ActivationAtomic ==
  [][/\ \A p \in ProjectIDs :
          projects'[p].active_deployment_id # projects[p].active_deployment_id
            => LET id == projects'[p].active_deployment_id
               IN /\ id \in 1..Len(deployments)
                  /\ deployments'[id] # deployments[id]
                  /\ deployments'[id].state = StateDeployed
                  /\ deployments'[id].deployed_at # NULL
     /\ \A id \in 1..Len(deployments) :
          (deployments'[id] # deployments[id]
             /\ deployments'[id].state = StateDeployed)
            => /\ deployments'[id].deployed_at # NULL
               /\ projects'[deployments[id].project_id].active_deployment_id
                    = id
     /\ \A w \in Workers :
          (worker[w].pc # "done" /\ worker'[w].pc = "done"
             /\ worker'[w].result # nil)
            => /\ deployments' = deployments
               /\ projects' = projects]_vars

\* a transaction has committed and another has been abandoned half-way
C2_Witness ==
  /\ projects[1].active_deployment_id = 2
  /\ deployments[2].state = StateDeployed
  /\ deployments[2].deployed_at # NULL
  /\ worker["w1"].result \in {errDB, crashed}
  /\ worker["w1"].depl.id = 3
  /\ worker["w1"].depl.state = StateDeployed
  /\ deployments[3].state = StatePendingDeploy

\* C3: a project's active_deployment_id is null or names a deployment of
\* that project that is in state deployed.
C3_ActivePointerValid ==
  \A p \in ProjectIDs :
    LET id == projects[p].active_deployment_id
    IN id # NULL
         => /\ id \in 1..Len(deployments)
            /\ deployments[id].project_id = p
            /\ deployments[id].state = StateDeployed

\* both projects have been repointed by Work
C3_Witness ==
  /\ projects[1].active_deployment_id = 2
  /\ projects[2].active_deployment_id = 3

\* the regular files of a tar.gz body
RegularFiles(body) ==
  {body.entries[i].name :
     i \in {j \in 1..Len(body.entries) : ~body.entries[j].dir}}

\* C4: a job of any flags whose deployment is pending_upload or uploaded
\* when Work loads it is refused with the unexpected-state error at once:
\* the run calls neither the object store nor the exchange, opens no
\* transaction, and the row keeps the state that was loaded.
C4_UnreadyRefused ==
  \A w \in Workers :
    worker[w].loadedState \in {StatePendingUpload, StateUploaded}
      => /\ worker[w].pc = "done"
         /\ worker[w].result = errUnexpectedState
         /\ worker[w].events = << >>
         /\ worker[w].tx = << >>
         /\ deployments[worker[w].d.deployment_id].state
              = worker[w].loadedState

\* an uploaded deployment refused although the job skips upload and
\* invalidation
C4_Witness ==
  /\ worker["w1"].loadedState = StateUploaded
  /\ worker["w1"].result = errUnexpectedState
  /\ worker["w1"].d.skip_webroot_upload
  /\ worker["w1"].d.skip_invalidation
  /\ worker["w1"].d.use_raw_bundle

\* C5: a job that uploads the webroot (skip_webroot_upload = false) for a
\* deployment that is deployed when Work loads it never calls the object
\* store or the exchange and never opens a transaction; once the project
\* row is loaded the run has returned the unexpected-state error, and the
\* row of the deployment is as it was loaded.
C5_DeployedNotReuploaded ==
  \A w \in Workers :
    (worker[w].loadedState = StateDeployed /\ ~worker[w].d.skip_webroot_upload)
      => /\ worker[w].pc \in {"loadProject", "done"}
         /\ worker[w].events = << >>
         /\ worker[w].tx = << >>
         /\ worker[w].pc = "done"
              => worker[w].result \in {errUnexpectedState, errDB}
         /\ worker[w].proj.id # NULL
              => worker[w].pc = "done"
                   /\ worker[w].result = errUnexpectedState
         /\ deployments[worker[w].d.deployment_id] = worker[w].depl

\* the live deployment refused by a job that would upload its raw bundle
C5_Witness ==
  /\ worker["w1"].loadedState = StateDeployed
  /\ ~worker["w1"].d.skip_webroot_upload
  /\ worker["w1"].d.use_raw_bundle
  /\ worker["w1"].proj.id = 1
  /\ worker["w1"].result = errUnexpectedState

\* C6: a run for a job with skip_webroot_upload = true downloads nothing,
\* and every upload it makes is the meta.json of a domain of the project.
C6_SkipWebrootUploadsOnlyMeta ==
  \A w \in Workers :
    worker[w].d.skip_webroot_upload
      => /\ Calls(w, "download") = {}
         /\ \A i \in Calls(w, "upload") :
              /\ IsMetaKey(worker[w].events[i][2])
              /\ worker[w].events[i][2][2]
                   \in BoundDomains(worker[w].depl.project_id)

\* a config-only job has run to its end for a deployment that was never
\* built
C6_Witness ==
  /\ worker["w1"].d.skip_webroot_upload
  /\ worker["w1"].loadedState = StatePendingBuild
  /\ worker["w1"].pc = "done"
  /\ worker["w1"].result = nil
  /\ Cardinality(MetaUploads("w1")) = 2

\* C7: a run for a job with skip_invalidation = true publishes nothing to
\* the exchange; a run for a job with skip_invalidation = false that
\* returned nil has published exactly one message.
C7_InvalidationUnlessSkipped ==
  \A w \in Workers :
    /\ worker[w].d.skip_invalidation => Calls(w, "publish") = {}
    /\ (~worker[w].d.skip_invalidation /\ worker[w].pc = "done"
          /\ worker[w].result = nil)
         => Cardinality(Calls(w, "publish")) = 1

\* a successful run that skipped the invalidation
C7_Witness ==
  /\ worker["w1"].d.skip_invalidation
  /\ worker["w1"].pc = "done"
  /\ worker["w1"].result = nil
  /\ Calls("w1", "commit") # {}

\* C8: the domains of a published invalidation are the domain names bound
\* to the project, each once, and they are the domains whose meta.json this
\* run has uploaded before publishing.
C8_InvalidationListsBoundDomains ==
  \A w \in Workers :
    \A i \in Calls(w, "publish") :
      LET domains == worker[w].events[i][2].domains
          uploaded == {worker[w].events[j][2][2] :
                         j \in {k \in MetaUploads(w) : k < i}}
      IN /\ Cardinality(Range(domains)) = Len(domains)
         /\ Range(domains) = BoundDomains(worker[w].depl.project_id)
         /\ Range(domains) = uploaded

\* an invalidation published for the project with an explicit domain
C8_Witness ==
  /\ Calls("w1", "publish") # {}
  /\ worker["w1"].depl.project_id = 1
  /\ worker["w1"].result = nil
  /\ worker["w1"].pc = "done"

\* C9: when Work has returned nil for deployment D of project P, the
\* meta.json of every domain bound to P holds D's PrefixID "<prefix>-<id>",
\* and has a force_https member, which is true, exactly when P.force_https.
C9_PointerDocuments ==
  \A w \in Workers :
    (worker[w].pc = "done" /\ worker[w].result = nil)
      => LET D == deployments[worker[w].d.deployment_id]
             P == projects[D.project_id]
         IN \A domain \in BoundDomains(P.id) :
              /\ MetaKey(domain) \in DOMAIN s3
              /\ LET doc == s3[MetaKey(domain)]
                 IN /\ doc.prefix = D.prefix \o "-" \o ToString(D.id)
                    /\ "force_https" \in DOMAIN doc <=> P.force_https
                    /\ "force_https" \in DOMAIN doc => doc.force_https = TRUE

\* both projects have been published: deployment 2 has replaced the
\* documents that named deployment 1, and project 2 does not force https
C9_Witness ==
  /\ worker["w1"].pc = "done"
  /\ worker["w1"].result = nil
  /\ worker["w1"].d.deployment_id = 3
  /\ s3[MetaKey("www.foo.com")].prefix = "cd34-2"

\* C10: a run that uploads the webroot for a publishable deployment whose
\* project row carries locked_at when Work loads it writes no meta.json,
\* publishes nothing, opens no transaction, and returns ErrProjectLocked
\* after it has uploaded every regular file of the bundle (unless the
\* download, the archive or an upload fails first); the deployment's state
\* and the project's active_deployment_id stay as loaded.
C10_LockedProjectAborts ==
  \A w \in Workers :
    (worker[w].proj.id # NULL /\ worker[w].proj.locked_at # NULL
       /\ ~worker[w].d.skip_webroot_upload
       /\ worker[w].loadedState # StateDeployed)
      => /\ worker[w].pc \in {"download", "upload", "listDomains", "done"}
         /\ MetaUploads(w) = {}
         /\ Calls(w, "publish") = {}
         /\ Calls(w, "commit") = {}
         /\ worker[w].tx = << >>
         /\ Returned(w)
              => worker[w].result \in {ErrProjectLocked, errS3, errArchive}
         /\ worker[w].result = ErrProjectLocked
              => {worker[w].events[i][2] : i \in WebrootUploads(w)}
                   = {WebrootKey(worker[w].depl.prefix \o "-"
                                   \o ToString(worker[w].depl.id), f) :
                        f \in RegularFiles(
                                s3[BundleKey(PrefixID(worker[w].depl),
                                             worker[w].d.use_raw_bundle)])}
         /\ deployments[worker[w].depl.id].state = worker[w].loadedState
         /\ projects[worker[w].proj.id].active_deployment_id
              = worker[w].proj.active_deployment_id

\* the webroot of deployment 2 was uploaded and the run stopped at the lock
C10_Witness ==
  /\ worker["w1"].result = ErrProjectLocked
  /\ ~worker["w1"].d.skip_webroot_upload
  /\ worker["w1"].depl.id = 2
  /\ Cardinality(WebrootUploads("w1")) = 2
  /\ deployments[2].state = StatePendingDeploy
  /\ projects[1].active_deployment_id = 1

\* C11: a run starts publishing pointer documents only while the project
\* row in the store carries no lock: a lock set at any moment after Work
\* started and before the first meta.json upload of the run stops the run
\* with ErrProjectLocked, so it writes no meta.json, publishes nothing and
\* activates nothing.
C11_LockSetMidRunAborts ==
  [][\A w \in Workers :
       (worker[w].pc = "listDomains" /\ worker'[w].pc = "uploadMeta")
         => projects[worker[w].depl.project_id].locked_at = NULL]_vars

\* C12: the lock is checked at the start of the pipeline as well as before
\* the pointer documents: a run whose project row carried locked_at when
\* Work loaded it has downloaded no bundle and uploaded nothing.
C12_LockCheckedAtStart ==
  \A w \in Workers :
    (worker[w].proj.id # NULL /\ worker[w].proj.locked_at # NULL)
      => /\ Calls(w, "download") = {}
         /\ Calls(w, "upload") = {}

\* C13: the deployment's state is read again before the pointer documents,
\* the invalidation and the transaction: once the row of a deployment is
\* deployed in the store, no run of a job with skip_webroot_upload = false
\* for it uploads a meta.json, publishes an invalidation, or writes in or
\* commits the activation transaction, whether the run started before or
\* after the commit.
C13_StateRereadBeforeSideEffects ==
  [][\A w \in Workers :
       (/\ worker[w].pc \notin {"idle", "done"}
        /\ ~worker[w].d.skip_webroot_upload
        /\ worker[w].depl.id # NULL
        /\ deployments[worker[w].depl.id].state = StateDeployed)
         => /\ MetaUploads(w)' = MetaUploads(w)
            /\ Calls(w, "publish")' = Calls(w, "publish")
            /\ Calls(w, "commit")' = Calls(w, "commit")
            /\ worker'[w].tx = << >> \/ worker'[w].tx = worker[w].tx]_vars

\* the state a single successful run of a webroot-uploading job for
\* deployment id leaves behind
DeployedAndLive(id, useRawBundle) ==
  LET D == deployments[id]
      prefixID == D.prefix \o "-" \o ToString(D.id)
      bundle == s3[BundleKey(prefixID, useRawBundle)]
  IN /\ D.state = StateDeployed
     /\ projects[D.project_id].active_deployment_id = D.id
     /\ \A domain \in BoundDomains(D.project_id) :
          /\ MetaKey(domain) \in DOMAIN s3
          /\ s3[MetaKey(domain)].prefix = prefixID
     /\ {k \in DOMAIN s3 : IsWebrootKey(k) /\ k[2] = prefixID}
          = {WebrootKey(prefixID, f) : f \in RegularFiles(bundle)}

\* C14: when two workers have both run the same webroot-uploading job for
\* deployment D to its end, in any interleaving, the store is as one
\* successful run leaves it: D is deployed, its project points at D, the
\* meta.json of every bound domain names D's PrefixID, the webroot of D
\* holds exactly the regular files of the bundle, and every webroot upload
\* of either run went under D's PrefixID.
C14_ConcurrentCopiesConverge ==
  (/\ \A w \in Workers : worker[w].pc = "done" /\ worker[w].result = nil
   /\ worker["w1"].d = worker["w2"].d
   /\ ~worker["w1"].d.skip_webroot_upload)
    => LET d == worker["w1"].d
           D == deployments[d.deployment_id]
       IN /\ DeployedAndLive(d.deployment_id, d.use_raw_bundle)
          /\ \A w \in Workers : \A i \in WebrootUploads(w) :
               worker[w].events[i][2][2] = D.prefix \o "-" \o ToString(D.id)

\* both workers have uploaded the webroot of deployment 2 and committed
C14_Witness ==
  /\ \A w \in Workers :
       /\ worker[w].pc = "done"
       /\ worker[w].result = nil
       /\ worker[w].d.deployment_id = 2
       /\ ~worker[w].d.skip_webroot_upload
       /\ Cardinality(WebrootUploads(w)) = 2
       /\ Calls(w, "commit") # {}

\* keys under deployments/ whose object a step has created, replaced or
\* deleted
TouchedDeploymentKeys ==
  {k \in DOMAIN s3 \cup DOMAIN s3' :
     /\ k[1] = "deployments"
     /\ \/ k \notin DOMAIN s3
        \/ k \notin DOMAIN s3'
        \/ s3'[k] # s3[k]}

\* C15: every upload of a run of Work for deployment D goes to a meta.json
\* or to a key inside deployments/<D.prefix>-<D.id>/webroot/; a step changes
\* objects under deployments/ only inside the webroot of the deployment of
\* the worker that is uploading, and deletes nothing; the webroot of
\* deployment 1, live at the start, stays as it was.
C15_WritesOnlyOwnWebroot ==
  /\ [](\A w \in Workers : \A i \in Calls(w, "upload") :
          LET key == worker[w].events[i][2]
              D == worker[w].depl
          IN IsMetaKey(key)
               \/ (IsWebrootKey(key)
                     /\ key[2] = D.prefix \o "-" \o ToString(D.id)))
  /\ [][/\ DOMAIN s3 \subseteq DOMAIN s3'
        /\ \A k \in TouchedDeploymentKeys :
             \E w \in Workers :
               /\ worker[w].pc = "upload"
               /\ IsWebrootKey(k)
               /\ k[2] = worker[w].depl.prefix \o "-"
                           \o ToString(worker[w].depl.id)]_vars
  /\ [](\A k \in DOMAIN s3 :
          (IsWebrootKey(k) /\ k[2] = "ab12-1")
            => k[4] \in {"index.html", "js/app.js"} /\ s3[k] = k[4])

\* deployment 3 shares its prefix string with the live deployment 1; its
\* webroot has been uploaded and it has replaced nothing of deployment 1
C15_Witness ==
  /\ worker["w1"].depl.id = 3
  /\ worker["w1"].result = nil
  /\ Cardinality(WebrootUploads("w1")) = 2
  /\ << "deployments", "ab12-3", "webroot", "index.html" >> \in DOMAIN s3
  /\ << "deployments", "ab12-1", "webroot", "index.html" >> \in DOMAIN s3

\* C16: the analytics step ends the run with nil whether the user lookup
\* and Track succeed or fail, and changes neither table nor the bucket; a
\* run that has committed its transaction never ends with an error, and
\* when it has ended its deployment is deployed and live.
C16_AnalyticsBestEffort ==
  /\ [][\A w \in Workers :
          (worker[w].pc = "track" /\ worker'[w] # worker[w])
            => /\ worker'[w].pc = "done"
               /\ worker'[w].result = nil
               /\ deployments' = deployments
               /\ projects' = projects
               /\ s3' = s3]_vars
  /\ [](\A w \in Workers :
          (Calls(w, "commit") # {} /\ worker[w].pc = "done")
            => /\ worker[w].result = nil
               /\ deployments[worker[w].depl.id].state = StateDeployed
               /\ projects[worker[w].depl.project_id].active_deployment_id
                    = worker[w].depl.id)

\* Track returned an error after the commit of deployment 2
C16_Witness ==
  /\ worker["w1"].pc = "done"
  /\ worker["w1"].result = nil
  /\ worker["w1"].depl.id = 2
  /\ Len(worker["w1"].events) > 0
  /\ worker["w1"].events[Len(worker["w1"].events)] = << "track", FALSE >>
  /\ deployments[2].state = StateDeployed
  /\ projects[1].active_deployment_id = 2

\* C17: deployed_at of a deployment is written once: a step that changes it
\* finds it null, also when the step is the commit of a config-only job
\* (skip_webroot_upload = true) for a deployment that is already deployed.
C17_DeployedAtWrittenOnce ==
  [][\A id \in 1..Len(deployments) :
       deployments'[id].deployed_at # deployments[id].deployed_at
         => deployments[id].deployed_at = NULL]_vars

\* the error Work returns when a call to the object store or the exchange
\* fails
ErrorOf(tag) == IF tag = "publish" THEN errMQ ELSE errS3

\* C18: an error stops the run where it happened and is what Work returns:
\* a failed call to the object store or the exchange is the last call of its
\* run, and the run has returned that error; a run that ended with an error
\* has committed nothing, and ended in a step that changed neither table
\* nor the bucket (but for the upload that went through just before the
\* archive turned out to be cut short); a run refused at the job, the deployment or its state has
\* made no call at all, and a run stopped by the lock has uploaded no
\* meta.json and published nothing; a finished run does nothing more.
C18_ErrorsStopTheRun ==
  /\ [](\A w \in Workers :
          /\ \A i \in Calls(w, "download") \cup Calls(w, "upload")
                        \cup Calls(w, "publish") :
               ~worker[w].events[i][3]
                 => /\ i = Len(worker[w].events)
                    /\ worker[w].pc = "done"
                    /\ worker[w].result = ErrorOf(worker[w].events[i][1])
          /\ (worker[w].pc = "done" /\ worker[w].result # nil)
               => /\ Calls(w, "commit") = {}
                  /\ worker[w].tx = << >>
                  /\ worker[w].result
                       \in {errDecode, errRecordNotFound, errUnexpectedState}
                       => worker[w].events = << >>
                  /\ worker[w].result = ErrProjectLocked
                       => MetaUploads(w) = {} /\ Calls(w, "publish") = {}
                  /\ worker[w].result \in {errS3, errMQ}
                       => /\ worker[w].events # << >>
                          /\ ~worker[w].events[Len(worker[w].events)][3])
  /\ [][\A w \in Workers :
          /\ (worker[w].pc # "done" /\ worker'[w].pc = "done"
                /\ worker'[w].result # nil)
               => /\ deployments' = deployments
                  /\ projects' = projects
                  /\ s3' = s3 \/ worker'[w].result = errArchive
          /\ (worker[w].pc = "done" /\ worker'[w] # worker[w])
               => worker'[w].events = << >>]_vars

\* the upload of the second pointer document of project 1 failed: the run
\* returned the error with the first document already replaced, and neither
\* published nor activated
C18_Witness ==
  /\ worker["w1"].pc = "done"
  /\ worker["w1"].result = errS3
  /\ worker["w1"].depl.id = 2
  /\ Cardinality(MetaUploads("w1")) = 2
  /\ s3[MetaKey("foo.rise.cloud")].prefix = "cd34-2"
  /\ s3[MetaKey("www.foo.com")].prefix = "ab12-1"
  /\ deployments[2].state # StateDeployed
  /\ projects[1].active_deployment_id = 1

\* C19: a deployment in pending_deploy of an unlocked project whose job is
\* delivered again after every failed run, with transient faults that
\* stop, is eventually deployed and live; and a run that ended with a
\* transient error has left the deployment in the state it loaded, so the
\* job is accepted again.
C19_RetryReachesDeployed ==
  /\ \A id \in {1, 2, 3} :
       (/\ deployments[id].state = StatePendingDeploy
        /\ projects[deployments[id].project_id].locked_at = NULL)
         ~> (/\ deployments[id].state = StateDeployed
             /\ projects[deployments[id].project_id].active_deployment_id
                  = id)
  /\ [](\A w \in Pool :
          (/\ worker[w].pc = "done"
           /\ worker[w].result \in {errDB, errS3, errMQ}
           /\ worker[w].depl.id # NULL)
            => /\ deployments[worker[w].depl.id].state
                    = worker[w].loadedState
               /\ ~BundleNotReady(worker[w].loadedState))

\* deployment 3 never had a job, so both deliveries were of the job of
\* deployment 2: the first run failed and the second deployed it
C19_Witness ==
  /\ deployments[3].state = StateUploaded
  /\ deliveries = 2
  /\ worker["w1"].pc = "done"
  /\ worker["w1"].result = nil
  /\ deployments[2].state = StateDeployed
  /\ projects[1].active_deployment_id = 2

\* C20: a jsenvvars add or delete for a project with a live deployment that
\* changes the variable set leaves every existing deployment, the live one
\* included, and the project as they were; it inserts one deployment in
\* pending_build of that project with the raw_bundle_id of the live one and
\* the new variable set (add: the members of the body, and the old
\* variables the body does not name; delete: the old variables but for the
\* named keys), and sends one build job with the new deployment's id.
C20_EnvChangeCreatesDeployment ==
  [][changes' # changes
       => LET name == request'.payload.name
              input == request'.payload.input
              P == CHOOSE p \in ProjectIDs : ProjectName[p] = name
              live == deployments[projects[P].active_deployment_id]
              old == live.js_env_vars
              changed ==
                IF input.op = "add"
                  THEN \E k \in DOMAIN input.params :
                         k \notin DOMAIN old \/ old[k] # input.params[k]
                  ELSE input.keys \cap DOMAIN old # {}
              new == deployments'[Len(deployments')]
          IN (/\ name \in {ProjectName[p] : p \in ProjectIDs}
              /\ request'.payload.user = projects[P].user_id
              /\ projects[P].locked_at = NULL
              /\ projects[P].active_deployment_id # NULL
              /\ input.json
              /\ changed)
               => /\ request'.status = 202
                  /\ Len(deployments') = Len(deployments) + 1
                  /\ \A id \in 1..Len(deployments) :
                       deployments'[id] = deployments[id]
                  /\ projects' = projects
                  /\ new.id = Len(deployments')
                  /\ new.project_id = P
                  /\ new.state = StatePendingBuild
                  /\ new.raw_bundle_id = live.raw_bundle_id
                  /\ IF input.op = "add"
                       THEN /\ DOMAIN new.js_env_vars
                                 = DOMAIN old \cup DOMAIN input.params
                            /\ \A k \in DOMAIN input.params :
                                 new.js_env_vars[k] = input.params[k]
                            /\ \A k \in DOMAIN old \ DOMAIN input.params :
                                 new.js_env_vars[k] = old[k]
                       ELSE /\ DOMAIN new.js_env_vars
                                 = DOMAIN old \ input.keys
                            /\ \A k \in DOMAIN new.js_env_vars :
                                 new.js_env_vars[k] = old[k]
                  /\ builds' = Append(builds, [deployment_id |-> new.id])]_vars

\* an add that replaced one of the two variables of the live deployment
\* has made deployment 4; the live deployment still carries the old value
C20_Witness ==
  /\ Len(deployments) = 4
  /\ request.status = 202
  /\ request.payload.input.op = "add"
  /\ DOMAIN request.payload.input.params = {"foo"}
  /\ DOMAIN deployments[4].js_env_vars = {"foo", "baz"}
  /\ deployments[4].js_env_vars["foo"] = "qux"
  /\ deployments[4].js_env_vars["baz"] = "qux"
  /\ deployments[1].js_env_vars["foo"] = "bar"
  /\ deployments[1].state = StateDeployed
  /\ deployments[4].state = StatePendingBuild
  /\ deployments[4].raw_bundle_id = 1
  /\ projects[1].active_deployment_id = 1
  /\ builds = << [deployment_id |-> 4] >>

\* C21: a jsenvvars add or delete by the owner of an unlocked project that
\* leaves the variable set as it is, or whose project has no live
\* deployment (412), or whose body is invalid (400) or empty (422), creates
\* no deployment and sends no job: the deployments and both queues stay as
\* they were.
C21_NoOpRequestsCreateNothing ==
  [][changes' # changes
       => LET name == request'.payload.name
              input == request'.payload.input
              P == CHOOSE p \in ProjectIDs : ProjectName[p] = name
              noActive == projects[P].active_deployment_id = NULL
              empty == IF input.op = "add" THEN DOMAIN input.params = {}
                                           ELSE input.keys = {}
              old == deployments[projects[P].active_deployment_id].js_env_vars
              unchanged ==
                IF input.op = "add"
                  THEN \A k \in DOMAIN input.params :
                         k \in DOMAIN old /\ old[k] = input.params[k]
                  ELSE input.keys \cap DOMAIN old = {}
          IN (/\ name \in {ProjectName[p] : p \in ProjectIDs}
              /\ request'.payload.user = projects[P].user_id
              /\ projects[P].locked_at = NULL
              /\ ~input.json \/ empty \/ noActive \/ unchanged)
               => /\ deployments' = deployments
                  /\ builds' = builds
                  /\ queue' = queue
                  /\ (input.json /\ ~empty /\ noActive)
                       => request'.status = 412
                  /\ (~input.json /\ ~noActive) => request'.status = 400
                  /\ (input.json /\ empty /\ ~noActive)
                       => request'.status = 422
                  /\ (input.json /\ ~empty /\ ~noActive)
                       => request'.status = 202]_vars

\* an add of a variable the live deployment already carries with that value
\* has been accepted and has made nothing
C21_Witness ==
  /\ changes = 1
  /\ request.status = 202
  /\ request.payload.name = "foo"
  /\ request.payload.input.op = "add"
  /\ DOMAIN request.payload.input.params = {"foo"}
  /\ request.payload.input.params["foo"] = "bar"
  /\ DOMAIN deployments[1].js_env_vars = {"foo", "baz"}
  /\ Len(deployments) = 3
  /\ builds = << >>
  /\ queue = {}

\* the project a configuration request names, when there is one
Named(name) == {p \in DOMAIN projects : projects[p].name = name}

\* the step serves a configuration request of the owner of project p
ServesOwner(p) ==
  /\ changes' # changes
  /\ p \in Named(request'.payload.name)
  /\ request'.payload.user = projects[p].user_id

C23_ConfigChangeEnqueuesJob ==
  [][\A p \in DOMAIN projects :
       LET proj == projects[p]
           input == request'.payload.input
           enables == /\ input.op = "update"
                      /\ input.field = "default_domain_enabled"
                      /\ input.value
                      /\ ~proj.default_domain_enabled
           toggles == /\ input.op = "update"
                      /\ input.field = "force_https"
                      /\ input.value # proj.force_https
           sets == /\ input.op = "auth_set"
                   /\ input.username # ""
                   /\ input.password # ""
           clears == input.op = "auth_clear"
       IN (/\ ServesOwner(p)
           /\ proj.locked_at = NULL
           /\ enables \/ toggles \/ sets \/ clears)
            => /\ request'.status = 200
               /\ IF proj.active_deployment_id = NULL
                    THEN queue' = queue
                    ELSE queue' = queue
                           \cup {[deployment_id |-> proj.active_deployment_id,
                                  skip_webroot_upload |-> TRUE,
                                  skip_invalidation |-> enables,
                                  use_raw_bundle |-> FALSE]}]_vars

\* the default domain of the project with the live deployment 1 has been
\* enabled: one job, which skips the invalidation
C23_Witness ==
  /\ request.status = 200
  /\ request.payload.input.op = "update"
  /\ request.payload.input.field = "default_domain_enabled"
  /\ projects[1].default_domain_enabled
  /\ queue = {[deployment_id |-> 1, skip_webroot_upload |-> TRUE,
               skip_invalidation |-> TRUE, use_raw_bundle |-> FALSE]}

\* C24: when the owner of an unlocked project disables its enabled default
\* domain and the project has an active deployment, the pointer document
\* of the default domain is gone from the bucket and one invalidation that
\* lists only the default domain has been published; with no active
\* deployment nothing is deleted, nothing is published and no job is sent.
C24_DefaultDomainDisabled ==
  [][\A p \in DOMAIN projects :
       LET proj == projects[p]
           input == request'.payload.input
           default == proj.name \o ".rise.cloud"
           disables == /\ input.op = "update"
                       /\ input.field = "default_domain_enabled"
                       /\ ~input.value
                       /\ proj.default_domain_enabled
       IN (ServesOwner(p) /\ proj.locked_at = NULL /\ disables)
            => IF proj.active_deployment_id # NULL
                 THEN /\ << "domains", default, "meta.json" >>
                           \notin DOMAIN s3'
                      /\ published' =
                           Append(published, [domains |-> << default >>])
                 ELSE /\ s3' = s3
                      /\ s3Deletes' = s3Deletes
                      /\ published' = published
                      /\ queue' = queue]_vars

\* C25: a delete by the owner of an unlocked project removes the project
\* row, its rows of the domains table, their certs and its raw bundles, and
\* no row of another project; it makes one Delete call whose keys are the
\* pointer document of the default domain and of every explicit domain,
\* the certificate and the key of every explicit domain and the uploaded
\* object of every raw bundle, after which none of them is in the bucket;
\* and it publishes one invalidation that lists the default domain and
\* every explicit domain, each once.
C25_DestroyCascades ==
  [][\A p \in DOMAIN projects :
       LET proj == projects[p]
           own(rows) == {rows[i] : i \in {j \in 1..Len(rows) :
                                            rows[j].project_id = p}}
           explicit == {r.name : r \in own(tables.domains)}
           default == proj.name \o ".rise.cloud"
           keys == {<< "domains", n, "meta.json" >> :
                      n \in explicit \cup {default}}
                     \cup {<< "certs", n, "ssl.crt" >> : n \in explicit}
                     \cup {<< "certs", n, "ssl.key" >> : n \in explicit}
                     \cup {r.uploaded_path : r \in own(tables.raw_bundles)}
       IN (/\ ServesOwner(p)
           /\ proj.locked_at = NULL
           /\ request'.payload.input.op = "destroy")
            => /\ request'.status = 200
               /\ DOMAIN projects' = DOMAIN projects \ {p}
               /\ \A q \in DOMAIN projects' : projects'[q] = projects[q]
               /\ Range(tables'.domains)
                    = Range(tables.domains) \ own(tables.domains)
               /\ tables'.certs
                    = {c \in tables.certs : c.domain \notin explicit}
               /\ Range(tables'.raw_bundles)
                    = Range(tables.raw_bundles) \ own(tables.raw_bundles)
               /\ Len(s3Deletes') = Len(s3Deletes) + 1
               /\ Range(s3Deletes'[Len(s3Deletes')]) = keys
               /\ DOMAIN s3' = DOMAIN s3 \ keys
               /\ \A k \in DOMAIN s3' : s3'[k] = s3[k]
               /\ Len(published') = Len(published) + 1
               /\ LET domains == published'[Len(published')].domains
                  IN /\ Range(domains) = explicit \cup {default}
                     /\ Len(domains) = Cardinality(explicit) + 1]_vars

\* project foo is gone with its domain, its cert and its two raw bundles;
\* one Delete call of six keys, one invalidation of two domains
C25_Witness ==
  /\ 1 \notin DOMAIN projects
  /\ request.status = 200
  /\ tables.domains = << >>
  /\ tables.certs = {}
  /\ tables.raw_bundles = << >>
  /\ Len(s3Deletes) = 1
  /\ Len(s3Deletes[1]) = 6
  /\ MetaKey("foo.rise.cloud") \notin DOMAIN s3
  /\ MetaKey("www.foo.com") \notin DOMAIN s3
  /\ RawBundleKey("ab12", 1) \notin DOMAIN s3
  /\ published = << [domains |-> << "foo.rise.cloud", "www.foo.com" >>] >>

\* C26: the calls of one run of Work are in this order: the download and
\* the webroot uploads (none when skipped), the lock check, the uploads of
\* the pointer documents, the publish (none when skipped), the commit.  A
\* run that has not passed the lock check has written no pointer document;
\* a run that uploads the webroot has uploaded every regular file of the
\* bundle before its first pointer document; the publish and the commit
\* come after the pointer documents of every domain bound to the project.
C26_EffectsInOrder ==
  \A w \in Workers :
    LET me == worker[w]
        ev == me.events
        webroot == Calls(w, "download") \cup WebrootUploads(w)
        meta == MetaUploads(w)
        pub == Calls(w, "publish")
        com == Calls(w, "commit")
        written(i) == {ev[j][2][2] : j \in {k \in meta : k < i /\ ev[k][3]}}
        files(i) ==
          {ev[j][2][4] : j \in {k \in WebrootUploads(w) : k < i /\ ev[k][3]}}
    IN /\ \A i \in webroot, j \in meta \cup pub \cup com : i < j
       /\ \A i \in meta, j \in pub \cup com : i < j
       /\ \A i \in pub, j \in com : i < j
       /\ me.pc \in {"loadProject", "download", "upload", "listDomains"}
            => meta \cup pub \cup com = {}
       /\ (me.pc = "done" /\ me.result = ErrProjectLocked)
            => /\ meta \cup pub \cup com = {}
               /\ ~me.d.skip_webroot_upload
                    => files(Len(ev) + 1) = RegularFiles([entries |-> me.entries])
       /\ \A i \in meta :
            /\ me.proj.locked_at = NULL
            /\ ~me.d.skip_webroot_upload
                 => files(i) = RegularFiles([entries |-> me.entries])
       /\ \A i \in pub \cup com : written(i) = BoundDomains(me.depl.project_id)
       /\ (com # {} /\ ~me.d.skip_invalidation) => pub # {}
       /\ (me.pc = "done" /\ me.result = nil)
            => /\ Cardinality(com) = 1
               /\ me.d.skip_invalidation \/ Cardinality(pub) = 1

\* a run that uploaded the two files of the bundle, then the two pointer
\* documents of project foo, then published, then committed
C26_Witness ==
  LET ev == worker["w1"].events
  IN /\ worker["w1"].pc = "done"
     /\ worker["w1"].result = nil
     /\ Len(ev) = 7
     /\ ev[1][1] = "download"
     /\ IsWebrootKey(ev[2][2])
     /\ IsWebrootKey(ev[3][2])
     /\ ev[4][2] = MetaKey("foo.rise.cloud")
     /\ ev[5][2] = MetaKey("www.foo.com")
     /\ ev[6][1] = "publish"
     /\ ev[7][1] = "commit"

\* the deployments whose PrefixID is x
WithPrefixID(x) ==
  {id \in 1..Len(deployments) :
     deployments[id].prefix \o "-" \o ToString(deployments[id].id) = x}

\* C27: when the pointer document of a domain names PrefixID X, a bundle of
\* the deployment with PrefixID X is in the bucket and every regular file
\* of it is under deployments/X/webroot/.
C27_PointerNamesUploadedWebroot ==
  \A key \in DOMAIN s3 :
    IsMetaKey(key)
      => LET X == s3[key].prefix
         IN /\ WithPrefixID(X) # {}
            /\ \E raw \in BOOLEAN :
                 LET bundle == << "deployments", X,
                                  IF raw THEN "raw-bundle.tar.gz"
                                         ELSE "optimized-bundle.tar.gz" >>
                 IN /\ bundle \in DOMAIN s3
                    /\ \A f \in RegularFiles(s3[bundle]) :
                         << "deployments", X, "webroot", f >> \in DOMAIN s3

\* C28: a step of a run of a config-only job (skip_webroot_upload = true)
\* for a deployment that was live once (it is deployed) leaves every
\* project's active_deployment_id as it is, and leaves every pointer
\* document that names the PrefixID of its project's active deployment
\* naming it.
C28_ConfigJobKeepsLiveDeployment ==
  [][\A w \in Workers :
       (/\ worker'[w] # worker[w]
        /\ worker[w].pc \notin {"idle", "done"}
        /\ worker[w].d.skip_webroot_upload
        /\ worker[w].loadedState = StateDeployed)
         => \A p \in DOMAIN projects :
              LET active == projects[p].active_deployment_id
                  live == deployments[active]
                  X == live.prefix \o "-" \o ToString(live.id)
              IN active # NULL
                   => /\ projects'[p].active_deployment_id = active
                      /\ \A domain \in BoundDomains(p) :
                           LET key == << "domains", domain, "meta.json" >>
                           IN s3[key].prefix = X => s3'[key].prefix = X]_vars

\* C29: when the runs of two workers for two different deployments of one
\* project have both returned nil, the pointer document of every domain
\* bound to the project names the PrefixID of the deployment the project's
\* active_deployment_id refers to.
C29_ConcurrentDeploymentsAgree ==
  \A w1, w2 \in Workers :
    (/\ w1 # w2
     /\ worker[w1].pc = "done" /\ worker[w1].result = nil
     /\ worker[w2].pc = "done" /\ worker[w2].result = nil
     /\ worker[w1].d.deployment_id # worker[w2].d.deployment_id
     /\ worker[w1].depl.project_id = worker[w2].depl.project_id)
      => LET p == worker[w1].depl.project_id
             live == deployments[projects[p].active_deployment_id]
         IN \A domain \in BoundDomains(p) :
              s3[<< "domains", domain, "meta.json" >>].prefix
                = live.prefix \o "-" \o ToString(live.id)

\* C30: a worker that has loaded the deployment of a job the Create handler
\* enqueued never finds it in state uploaded, and so never refuses the job
\* as unexpected-state for that reason.
C30_CreateJobFindsPendingDeploy ==
  \A w \in Workers :
    worker[w].fromQueue
      => /\ worker[w].loadedState # StateUploaded
         /\ ~(worker[w].result = errUnexpectedState
                /\ worker[w].loadedState = StateUploaded)

\* C31: Create puts a Deploy job on the queue only for a deployment whose
\* raw bundle is at deployments/<prefix>-<id>/raw-bundle.tar.gz and whose
\* state is uploaded.  A request without a payload part inserts no row; a
\* failed upload ends the request with the row in pending_upload and no
\* job; a failed enqueue ends it with the row in uploaded, and a row that
\* Create inserted is pending_deploy only when its job is on the queue.
C31_EnqueueAfterUpload ==
  /\ [](\A id \in 1..Len(deployments) :
          LET D == deployments[id]
              key == << "deployments", D.prefix \o "-" \o ToString(id),
                        "raw-bundle.tar.gz" >>
              jobs == {j \in queue : j.deployment_id = id}
          IN /\ jobs # {}
                  => /\ key \in DOMAIN s3
                     /\ D.state \in {StateUploaded, StatePendingDeploy})
  /\ [][/\ \A id \in 1..Len(deployments') :
             LET D == deployments'[id]
                 key == << "deployments", D.prefix \o "-" \o ToString(id),
                           "raw-bundle.tar.gz" >>
                 was == IF id > Len(deployments) THEN StatePendingUpload
                                                 ELSE deployments[id].state
             IN /\ (D.state = StatePendingDeploy /\ was # StatePendingDeploy)
                     => \E j \in queue' : j.deployment_id = id
                /\ (D.state # StatePendingUpload /\ was = StatePendingUpload)
                     => key \in DOMAIN s3'
        /\ (/\ creates' # creates
            /\ request'.pc = "idle"
            /\ "missing" \in DOMAIN request'.payload.input)
             => /\ deployments' = deployments
                /\ s3' = s3
                /\ queue' = queue
        /\ queue' # queue
             => LET id == request.depl.id
                    key == << "deployments",
                              request.depl.prefix \o "-" \o ToString(id),
                              "raw-bundle.tar.gz" >>
                IN /\ request.pc = "enqueue"
                   /\ Cardinality(queue' \ queue) = 1
                   /\ \A j \in queue' \ queue : j.deployment_id = id
                   /\ deployments[id].state = StateUploaded
                   /\ key \in DOMAIN s3
                   /\ s3[key] = request.payload
        /\ (request.pc = "upload" /\ s3' = s3)
             => /\ request'.pc = "idle"
                /\ request'.status = 500
                /\ deployments' = deployments
                /\ deployments[request.depl.id].state = StatePendingUpload
                /\ queue' = queue
        /\ (request.pc = "enqueue" /\ queue' = queue)
             => /\ request'.pc = "idle"
                /\ request'.status = 500
                /\ deployments' = deployments
                /\ deployments[request.depl.id].state = StateUploaded]_vars

\* a request whose enqueue failed: deployment 4 is uploaded, its raw bundle
\* is in the bucket and the queue is empty
C31_Witness ==
  /\ Len(deployments) = 4
  /\ deployments[4].state = StateUploaded
  /\ RawBundleKey(deployments[4].prefix, 4) \in DOMAIN s3
  /\ request.pc = "idle"
  /\ request.status = 500
  /\ queue = {}

\* C32: the Create handler goes on to its body only when the project named
\* in the path exists and is owned by the current user; a request for a
\* name that no project has, or for another user's project, is answered
\* 404 and leaves the tables, the bucket and both queues as they were.
C32_RequireProject ==
  [][creates' # creates
       => IF request'.pc = "idle"
            THEN LET u == request'.payload.user
                     owned == {p \in DOMAIN projects :
                                 /\ projects[p].name = request'.payload.name
                                 /\ projects[p].user_id = u}
                 IN owned = {}
                      => /\ request'.status = 404
                         /\ UNCHANGED << deployments, projects, s3, queue,
                                         builds, tables >>
            ELSE /\ request'.proj.id \in DOMAIN projects
                 /\ projects[request'.proj.id] = request'.proj
                 /\ request'.proj.user_id = request'.depl.user_id
                 /\ request'.depl.project_id = request'.proj.id
    ]_<< creates, vars >>

\* user 2 asked to deploy to project bar of user 1 and got 404
C32_Witness ==
  /\ creates = 1
  /\ request.pc = "idle"
  /\ request.status = 404
  /\ request.payload.user = 2
  /\ request.payload.name = "bar"
  /\ request.payload.input = GoodArchive
  /\ Len(deployments) = 3
  /\ queue = {}

=============================================================================
